---- MODULE Spec2Model ----
(***************************************************************************)
(* Model of sdial (src/src/main.rs): the Master "Speed Dial" lock          *)
(* simulation.  A Wheel is a u8 packing pos*3 + (shift+1); a Lock is four  *)
(* wheels; main enumerates every move sequence of 1..max moves, replays it *)
(* on a fresh Lock and aggregates the sequences per resulting Lock in an   *)
(* ordered map, then sorts and reports.                                    *)
(***************************************************************************)
EXTENDS Integers, Sequences, FiniteSets, TLC

\* Largest value of --max explored by the model.
MaxMoves == 4

VARIABLES
    wheel,       \* a Wheel under test (the u8 of struct Wheel)
    wheel_prev,  \* the Wheel before the last operation
    wheel_op,    \* the last operation on the wheel and its arguments
    lock,        \* a Lock under test: wheels[0..3]
    lock_prev,   \* the Lock before the last operation
    lock_op,     \* the last operation on the lock and its argument
    max,         \* main: --max
    show_dups,   \* main: --dups
    show_all,    \* main: --all
    show_bests,  \* main: --bests
    moves,       \* main: loop variable of `for moves in 1..(max+1)`
    binary,      \* main: loop variable of `for binary in 0..(1 << 2*moves)`
    all,         \* main: the BTreeMap Lock -> Target
    dups,        \* main: the duplicate total printed on line 99
    moves_vec,   \* main: `let mut moves: Vec<_>` of line 106 (keys of all)
    best_count,  \* main: best_count of line 123
    idx,         \* main: position of the best-report loop in moves_vec
    out,         \* main: the lines printed so far
    pc           \* main: position in main

wheelVars == <<wheel, wheel_prev, wheel_op>>
lockVars == <<lock, lock_prev, lock_op>>
mainVars == <<max, show_dups, show_all, show_bests, moves, binary, all,
              dups, moves_vec, best_count, idx, out, pc>>
vars == <<wheel, wheel_prev, wheel_op, lock, lock_prev, lock_op,
          max, show_dups, show_all, show_bests, moves, binary, all,
          dups, moves_vec, best_count, idx, out, pc>>

(***************************************************************************)
(* Wheel                                                                   *)
(***************************************************************************)
U8 == 256

\* (shift + 1) as u8 for an i8 shift
AsU8(i) == i % U8

\* Wheel::new(pos, shift)
Wheel_new(p, sh) == (p * 3 + AsU8(sh + 1)) % U8

\* Wheel::set(&mut self, pos, shift): the new value of self.0
set(self, p, sh) == (p * 3 + AsU8(sh + 1)) % U8

\* Wheel::pos(self)
pos(self) == self \div 3

\* Wheel::shift(self)
shift(self) == (self % 3) - 1

\* Wheel::reset(&mut self)
Wheel_reset(self) == set(self, 0, 0)

\* a plausible slip: `<=` instead of `<` in the comparison of the shifts
advance_le(self, sh) ==
    IF shift(self) <= sh
    THEN set(self, pos(self), sh)
    ELSE set(self, IF pos(self) = 4 THEN 0 ELSE pos(self) + 1, sh)

\* a plausible slip: the wrap to 0 comes one position late, after 5
advance_wrap_late(self, sh) ==
    IF shift(self) < sh
    THEN set(self, pos(self), sh)
    ELSE set(self, IF pos(self) = 5 THEN 0 ELSE pos(self) + 1, sh)

\* Wheel::advance(&mut self, shift): the new value of self.0
advance(self, sh) ==
    IF shift(self) < sh
    THEN LET p == pos(self) IN set(self, p, sh)
    ELSE LET p == IF pos(self) = 4 THEN 0 ELSE pos(self) + 1
         IN set(self, p, sh)

Positions == 0..4
Shifts == -1..1
Wheels == {Wheel_new(p, sh) : p \in Positions, sh \in Shifts}

(***************************************************************************)
(* Lock                                                                    *)
(***************************************************************************)
Dirs == 0..3

\* Lock::new()
Lock_new == [i \in 0..3 |-> Wheel_new(0, 0)]

\* fn prior(wheel)
prior(w) == IF w = 0 THEN 3 ELSE w - 1

\* a plausible slip: the last wheel saturates instead of wrapping to 0
next_saturating(w) == IF w = 3 THEN 3 ELSE w + 1

\* fn next(wheel)
next(w) == IF w = 3 THEN 0 ELSE w + 1

\* a plausible slip: the third advance goes to the wheel after next(dir)
slide_far(self, dir) ==
    LET l1 == [self EXCEPT ![prior(dir)] = advance(self[prior(dir)], -1)]
        l2 == [l1 EXCEPT ![dir] = advance(l1[dir], 0)]
    IN [l2 EXCEPT ![next(next(dir))] = advance(l2[next(next(dir))], 1)]

\* Lock::slide(&mut self, dir): the new value of self.wheels
slide(self, dir) ==
    LET l1 == [self EXCEPT ![prior(dir)] = advance(self[prior(dir)], -1)]
        l2 == [l1 EXCEPT ![dir] = advance(l1[dir], 0)]
    IN [l2 EXCEPT ![next(dir)] = advance(l2[next(dir)], 1)]

\* Lock::reset(&mut self)
Lock_reset(self) == [i \in 0..3 |-> Wheel_reset(self[i])]

(***************************************************************************)
(* Operations on one Wheel and on one Lock, from any valid value.          *)
(***************************************************************************)
mainIdle ==
    /\ max = 0 /\ show_dups = FALSE /\ show_all = FALSE /\ show_bests = FALSE
    /\ moves = 1 /\ binary = 0 /\ all = <<>> /\ dups = 0 /\ moves_vec = <<>>
    /\ best_count = 0 /\ idx = 0 /\ out = <<>> /\ pc = "idle"

wheelIdle ==
    /\ wheel = Wheel_new(0, 0) /\ wheel_prev = Wheel_new(0, 0)
    /\ wheel_op = <<"new", 0, 0>>

lockIdle ==
    /\ lock = Lock_new /\ lock_prev = Lock_new /\ lock_op = <<"new">>

InitWheel ==
    /\ \E p \in Positions, sh \in Shifts :
          /\ wheel = Wheel_new(p, sh)
          /\ wheel_prev = wheel
          /\ wheel_op = <<"new", p, sh>>
    /\ lockIdle
    /\ mainIdle

WheelSet ==
    /\ \E p \in Positions, sh \in Shifts :
          /\ wheel' = set(wheel, p, sh)
          /\ wheel_op' = <<"set", p, sh>>
    /\ wheel_prev' = wheel
    /\ UNCHANGED <<lockVars, mainVars>>

WheelReset ==
    /\ wheel' = Wheel_reset(wheel)
    /\ wheel_op' = <<"reset">>
    /\ wheel_prev' = wheel
    /\ UNCHANGED <<lockVars, mainVars>>

WheelAdvance ==
    /\ \E sh \in Shifts :
          /\ wheel' = advance(wheel, sh)
          /\ wheel_op' = <<"advance", sh>>
    /\ wheel_prev' = wheel
    /\ UNCHANGED <<lockVars, mainVars>>

NextWheel == WheelSet \/ WheelReset \/ WheelAdvance

SpecWheel == InitWheel /\ [][NextWheel]_vars

InitLock ==
    /\ lock \in [0..3 -> Wheels]
    /\ lock_prev = lock
    /\ lock_op = <<"new">>
    /\ wheelIdle
    /\ mainIdle

LockSlide ==
    /\ \E dir \in Dirs :
          /\ lock' = slide(lock, dir)
          /\ lock_op' = <<"slide", dir>>
    /\ lock_prev' = lock
    /\ UNCHANGED <<wheelVars, mainVars>>

LockReset ==
    /\ lock' = Lock_reset(lock)
    /\ lock_op' = <<"reset">>
    /\ lock_prev' = lock
    /\ UNCHANGED <<wheelVars, mainVars>>

NextLock == LockSlide \/ LockReset

SpecLock == InitLock /\ [][NextLock]_vars

(***************************************************************************)
(* Slides from the reset Lock, as main replays them (lines 74-81).         *)
(***************************************************************************)
InitSlides ==
    /\ lockIdle
    /\ wheelIdle
    /\ mainIdle

NextSlides == LockSlide

SpecSlides == InitSlides /\ [][NextSlides]_vars

(***************************************************************************)
(* The replay loop (lines 77-81) on a sequence that repeats one direction: *)
(* tmp & 3 is the same direction in every round.                           *)
(***************************************************************************)
\* the longest repetition explored
MaxRepeat == 30

InitRepeat ==
    /\ lockIdle
    /\ wheelIdle
    /\ mainIdle

\* the first round of the loop: any direction
RepeatFirst ==
    /\ lock_op = <<"new">>
    /\ \E dir \in Dirs :
          /\ lock' = slide(lock, dir)
          /\ lock_op' = <<"repeat", dir, 1>>
    /\ lock_prev' = lock
    /\ UNCHANGED <<wheelVars, mainVars>>

\* a later round: the same direction again
RepeatAgain ==
    /\ lock_op[1] = "repeat"
    /\ lock_op[3] < MaxRepeat
    /\ lock' = slide(lock, lock_op[2])
    /\ lock_op' = <<"repeat", lock_op[2], lock_op[3] + 1>>
    /\ lock_prev' = lock
    /\ UNCHANGED <<wheelVars, mainVars>>

NextRepeat == RepeatFirst \/ RepeatAgain

SpecRepeat == InitRepeat /\ [][NextRepeat]_vars

(***************************************************************************)
(* main: enumeration (lines 66-90)                                         *)
(***************************************************************************)
\* The empty BTreeMap of line 52.
EmptyMap == [l \in {} |-> 0]

\* 1 << n on u64, for the shift counts the model reaches (n < 32)
Shl1(n) == 2 ^ n

\* Lines 74-81: a fresh Lock, then `moves` times slide(tmp & 3),
\* seq.push(tmp & 3), tmp >>= 2.  Yields the final lock and seq.
RECURSIVE replay_loop(_, _, _, _)
replay_loop(l, tmp, seq, k) ==
    IF k = 0
    THEN [lock |-> l, seq |-> seq]
    ELSE replay_loop(slide(l, tmp % 4), tmp \div 4, Append(seq, tmp % 4), k - 1)

\* a plausible slip: the digits are taken from the most significant pair
RECURSIVE replay_msd_loop(_, _, _, _)
replay_msd_loop(l, tmp, seq, k) ==
    IF k = 0
    THEN [lock |-> l, seq |-> seq]
    ELSE LET d == (tmp \div Shl1(2 * (k - 1))) % 4
         IN replay_msd_loop(slide(l, d), tmp, Append(seq, d), k - 1)

replay_msd_first(bin, n) == replay_msd_loop(Lock_new, bin, <<>>, n)

\* a plausible slip: the digits are taken without shifting tmp
RECURSIVE replay_noshift(_, _, _, _)
replay_noshift(l, tmp, seq, k) ==
    IF k = 0
    THEN [lock |-> l, seq |-> seq]
    ELSE replay_noshift(slide(l, tmp % 4), tmp, Append(seq, tmp % 4), k - 1)

replay_same_digit(bin, n) == replay_noshift(Lock_new, bin, <<>>, n)

\* Lines 74-81 for one value of `binary` and `moves`.
replay(bin, n) == replay_loop(Lock_new, bin, <<>>, n)

\* a plausible slip: a later sequence replaces the entry instead of joining it
record_overwrite(m, l, seq) ==
    (l :> [count |-> 1, seq |-> seq, all |-> <<seq>>]) @@ m

\* a plausible slip: a new entry starts with count 1 and is then counted again
record_count_from_one(m, l, seq) ==
    LET inserted == IF l \in DOMAIN m
                    THEN m
                    ELSE (l :> [count |-> 1, seq |-> seq, all |-> <<>>]) @@ m
    IN [inserted EXCEPT ![l] = [@ EXCEPT !.all = Append(@, seq),
                                         !.count = @ + 1]]

\* Lines 82-88: all.entry(lock).or_insert_with(..), ent.all.push(seq),
\* ent.count += 1.  Yields the new map.
record(m, l, seq) ==
    LET inserted == IF l \in DOMAIN m
                    THEN m
                    ELSE (l :> [count |-> 0, seq |-> seq, all |-> <<>>]) @@ m
    IN [inserted EXCEPT ![l] = [@ EXCEPT !.all = Append(@, seq),
                                         !.count = @ + 1]]

\* a plausible slip: `1 << moves`, half the bits
binary_limit_short(n) == Shl1(n)

\* Line 70: the exclusive upper bound 1 << 2*moves of `binary`
binary_limit(n) == Shl1(2 * n)

Init ==
    /\ max \in 0..MaxMoves
    /\ show_dups \in BOOLEAN
    /\ show_all \in BOOLEAN
    /\ show_bests \in BOOLEAN
    /\ moves = 1
    /\ binary = 0
    /\ all = EmptyMap
    /\ dups = 0
    /\ moves_vec = <<>>
    /\ best_count = 0
    /\ idx = 0
    /\ out = <<>>
    /\ pc = "enumerate"
    /\ wheelIdle
    /\ lockIdle

\* One pass of the body of `for binary in 0 .. (1 << 2*moves)`, with the
\* step of both loop counters.
Enumerate ==
    /\ pc = "enumerate"
    /\ moves < max + 1
    /\ binary < binary_limit(moves)
    /\ LET r == replay(binary, moves)
       IN all' = record(all, r.lock, r.seq)
    /\ IF binary + 1 < binary_limit(moves)
       THEN /\ binary' = binary + 1
            /\ moves' = moves
       ELSE /\ binary' = 0
            /\ moves' = moves + 1
    /\ UNCHANGED <<max, show_dups, show_all, show_bests, dups, moves_vec,
                   best_count, idx, out, pc, wheelVars, lockVars>>

(***************************************************************************)
(* main: statistics and report (lines 92-139)                              *)
(***************************************************************************)
\* #[derive(Ord)] on Lock and Wheel: lexicographic over wheels[0..3]
RECURSIVE lock_lt_from(_, _, _)
lock_lt_from(a, b, i) ==
    IF i > 3 THEN FALSE
    ELSE IF a[i] # b[i] THEN a[i] < b[i]
    ELSE lock_lt_from(a, b, i + 1)

Lock_lt(a, b) == lock_lt_from(a, b, 0)

\* Iterator::collect into a Vec: the sequence, fully evaluated
collect(s) == s \o <<>>

\* a plausible slip: the map is iterated from its largest key downwards
iter_desc(m) ==
    LET K == DOMAIN m
        ranked == {<<Cardinality({j \in K : Lock_lt(k, j)}), k>> : k \in K}
    IN collect([p \in 1..Cardinality(K) |->
                   (CHOOSE r \in ranked : r[1] = p - 1)[2]])

\* BTreeMap::iter: the keys in ascending order (each key at the place given
\* by the number of smaller keys)
iter(m) ==
    LET K == DOMAIN m
        ranked == {<<Cardinality({j \in K : Lock_lt(j, k)}), k>> : k \in K}
    IN collect([p \in 1..Cardinality(K) |->
                   (CHOOSE r \in ranked : r[1] = p - 1)[2]])

\* slice::sort_by / sort_by_key, a stable sort: v ordered by key[i], the
\* elements with equal keys keeping their order
stable_sort(v, key) ==
    LET n == Len(v)
        placed == {<<1 + Cardinality({j \in 1..n :
                            \/ key[j] < key[i]
                            \/ key[j] = key[i] /\ j < i}), i>> : i \in 1..n}
    IN collect([p \in 1..n |-> v[(CHOOSE r \in placed : r[1] = p)[2]]])

\* Line 107: moves.sort_by(|a, b| a.1.seq.0.len().cmp(&b.1.seq.0.len()))
sort_by_len(v, m) == stable_sort(v, collect([i \in 1..Len(v) |-> Len(m[v[i]].seq)]))

\* Line 108: moves.sort_by_key(|m| m.1.count)
sort_by_count(v, m) == stable_sort(v, collect([i \in 1..Len(v) |-> m[v[i]].count]))

\* a plausible slip: the two sorts in the other order
sorted_moves_swapped(m) == sort_by_len(sort_by_count(iter(m), m), m)

\* Lines 106-108: the Vec `moves`, as the keys of its (&Lock, &Target) pairs
sorted_moves(m) == sort_by_count(sort_by_len(iter(m), m), m)

\* a plausible slip: the counts are summed without the `- 1`
RECURSIVE sum_counts(_, _, _, _)
sum_counts(v, m, lo, hi) ==
    IF lo > hi THEN 0
    ELSE IF lo = hi THEN m[v[lo]].count
    ELSE LET mid == (lo + hi) \div 2
         IN sum_counts(v, m, lo, mid) + sum_counts(v, m, mid + 1, hi)

\* Line 98: all.values().map(|x| x.count - 1).sum(), over v[lo..hi]
RECURSIVE sum_dups(_, _, _, _)
sum_dups(v, m, lo, hi) ==
    IF lo > hi THEN 0
    ELSE IF lo = hi THEN m[v[lo]].count - 1
    ELSE LET mid == (lo + hi) \div 2
         IN sum_dups(v, m, lo, mid) + sum_dups(v, m, mid + 1, hi)

\* Lines 114-116 and 131-133: one line per sequence of target.all
mv_lines(target) ==
    collect([i \in 1..Len(target.all) |-> <<"mv", target.all[i]>>])

\* Lines 112-117: the lines of one entry of the listing
entry_lines(l, target, sd) ==
    <<<<"all", l, target.count, Len(target.seq), target.seq>>>>
    \o (IF sd /\ target.count > 1 THEN mv_lines(target) ELSE <<>>)

\* Lines 111-118: the listing of the entries v[lo..hi], in order
RECURSIVE show_all_lines(_, _, _, _, _)
show_all_lines(v, m, sd, lo, hi) ==
    IF lo > hi THEN <<>>
    ELSE IF lo = hi THEN entry_lines(v[lo], m[v[lo]], sd)
    ELSE LET mid == (lo + hi) \div 2
         IN show_all_lines(v, m, sd, lo, mid)
            \o show_all_lines(v, m, sd, mid + 1, hi)

\* Lines 92-99: the loops are over; the header and the statistics.
Stats ==
    /\ pc = "enumerate"
    /\ ~(moves < max + 1)
    /\ LET v == iter(all)
           d == sum_dups(v, all, 1, Len(v))
       IN /\ dups' = d
          /\ out' = out \o << <<"For up to", max>>,
                              <<"Uniques", Cardinality(DOMAIN all)>>,
                              <<"dups", d>> >>
    /\ pc' = "sort"
    /\ UNCHANGED <<max, show_dups, show_all, show_bests, moves, binary, all,
                   moves_vec, best_count, idx, wheelVars, lockVars>>

\* Lines 106-108
SortMoves ==
    /\ pc = "sort"
    /\ moves_vec' = sorted_moves(all)
    /\ pc' = "show_all"
    /\ UNCHANGED <<max, show_dups, show_all, show_bests, moves, binary, all,
                   dups, best_count, idx, out, wheelVars, lockVars>>

\* Lines 110-119
ShowAll ==
    /\ pc = "show_all"
    /\ out' = IF show_all
              THEN out \o show_all_lines(moves_vec, all, show_dups, 1, Len(moves_vec))
              ELSE out
    /\ pc' = "best"
    /\ UNCHANGED <<max, show_dups, show_all, show_bests, moves, binary, all,
                   dups, moves_vec, best_count, idx, wheelVars, lockVars>>

\* Line 123: moves[0] panics (index out of bounds) when moves is empty.
BestCount ==
    /\ pc = "best"
    /\ IF Len(moves_vec) = 0
       THEN /\ pc' = "panic"
            /\ UNCHANGED <<best_count, idx>>
       ELSE /\ best_count' = all[moves_vec[1]].count
            /\ idx' = 1
            /\ pc' = "best_loop"
    /\ UNCHANGED <<max, show_dups, show_all, show_bests, moves, binary, all,
                   dups, moves_vec, out, wheelVars, lockVars>>

\* a plausible slip: the loop always stops after the first entry
BestLoop_first_only ==
    /\ pc = "best_loop"
    /\ out' = out \o <<<<"Best", moves_vec[idx], all[moves_vec[idx]].count,
                         all[moves_vec[idx]].seq>>>>
                  \o (IF show_dups /\ all[moves_vec[idx]].count > 1
                      THEN mv_lines(all[moves_vec[idx]]) ELSE <<>>)
    /\ pc' = "done"
    /\ UNCHANGED <<max, show_dups, show_all, show_bests, moves, binary, all,
                   dups, moves_vec, best_count, idx, wheelVars, lockVars>>

\* Lines 124-139: one pass of `for &(lock, target) in &moves`.
BestLoop ==
    /\ pc = "best_loop"
    /\ IF idx > Len(moves_vec)
       THEN /\ pc' = "done"
            /\ UNCHANGED <<idx, out>>
       ELSE LET l == moves_vec[idx]
                target == all[l]
            IN IF target.count # best_count
               THEN /\ pc' = "done"
                    /\ UNCHANGED <<idx, out>>
               ELSE /\ out' = out
                        \o <<<<"Best", l, target.count, target.seq>>>>
                        \o (IF show_dups /\ target.count > 1
                            THEN mv_lines(target) ELSE <<>>)
                    /\ IF ~show_bests
                       THEN /\ pc' = "done"
                            /\ idx' = idx
                       ELSE /\ pc' = "best_loop"
                            /\ idx' = idx + 1
    /\ UNCHANGED <<max, show_dups, show_all, show_bests, moves, binary, all,
                   dups, moves_vec, best_count, wheelVars, lockVars>>

Next == Enumerate \/ Stats \/ SortMoves \/ ShowAll \/ BestCount \/ BestLoop

Spec == Init /\ [][Next]_vars

(***************************************************************************)
(* Properties                                                              *)
(***************************************************************************)

\* C1: Wheel.advance(targetBias) on a wheel of position p and bias b leaves
\* the position at p when b < targetBias and otherwise moves it to
\* (p + 1) mod 5; in both cases the bias becomes targetBias.
C1_AdvanceRule ==
    wheel_op[1] = "advance" =>
        \E p \in 0..4, b \in -1..1 :
            /\ wheel_prev = 3 * p + (b + 1)
            /\ LET t == wheel_op[2]
                   q == IF b < t THEN p ELSE (p + 1) % 5
               IN wheel = 3 * q + (t + 1)

\* C1 witness: advance(0) on the wheel of position 4 and bias +1 wraps the
\* position to 0 with bias 0.
C1_Witness ==
    /\ wheel_op = <<"advance", 0>>
    /\ wheel_prev = 14
    /\ wheel = 1

\* C2: Lock.slide(d) gives advance(-1) to wheel (d+3) mod 4, advance(0) to
\* wheel d and advance(+1) to wheel (d+1) mod 4, and the opposite wheel
\* (d+2) mod 4 keeps its value.
C2_SlideRouting ==
    lock_op[1] = "slide" =>
        LET d == lock_op[2]
        IN /\ lock[(d + 3) % 4] = advance(lock_prev[(d + 3) % 4], -1)
           /\ lock[d] = advance(lock_prev[d], 0)
           /\ lock[(d + 1) % 4] = advance(lock_prev[(d + 1) % 4], 1)
           /\ lock[(d + 2) % 4] = lock_prev[(d + 2) % 4]

\* C2 witness: slide(0) on the reset lock gives (1|, 0>, 0|, 1<).
C2_Witness ==
    /\ lock_op = <<"slide", 0>>
    /\ lock_prev = [i \in 0..3 |-> 1]
    /\ lock = [i \in 0..3 |-> IF i = 0 THEN 4 ELSE IF i = 1 THEN 2
                              ELSE IF i = 2 THEN 1 ELSE 3]

\* C3 as stated: every slide(d) changes all 4 wheels of the Lock.
C3_AllWheelsUpdated ==
    lock_op[1] = "slide" => \A i \in 0..3 : lock[i] # lock_prev[i]

\* C3, amended: every slide(d) changes exactly the three wheels (d+3) mod 4,
\* d and (d+1) mod 4, and leaves wheel (d+2) mod 4 untouched.
C3_ThreeWheelsUpdated ==
    lock_op[1] = "slide" =>
        LET d == lock_op[2]
            changed == {i \in 0..3 : lock[i] # lock_prev[i]}
        IN /\ changed = {(d + 3) % 4, d, (d + 1) % 4}
           /\ Cardinality(changed) = 3
           /\ (d + 2) % 4 \notin changed

\* C3 witness: a slide(2) that changed wheels 1, 2 and 3 and not wheel 0.
C3_Witness ==
    /\ lock_op = <<"slide", 2>>
    /\ lock[0] = lock_prev[0]
    /\ \A i \in 1..3 : lock[i] # lock_prev[i]

(***************************************************************************)
(* The enumeration stated on its own: every direction sequence of length   *)
(* 1..n, and the Lock it leads to from the reset Lock.                     *)
(***************************************************************************)
AllSeqs(n) == UNION {[1..k -> Dirs] : k \in 1..n}

RECURSIVE slide_from(_, _, _)
slide_from(l, q, i) ==
    IF i > Len(q) THEN l ELSE slide_from(slide(l, q[i]), q, i + 1)

Final(q) == slide_from(Lock_new, q, 1)

\* <<final lock, sequence>> for every sequence of length 1..n
Outcomes(n) == {<<Final(q), q>> : q \in AllSeqs(n)}

\* 4 + 4^2 + ... + 4^n
RECURSIVE Geo(_)
Geo(n) == IF n = 0 THEN 0 ELSE 4 ^ n + Geo(n - 1)

\* the number that encodes a sequence: the first move is the least
\* significant base-4 digit
RECURSIVE Base4(_, _)
Base4(q, i) == IF i > Len(q) THEN 0 ELSE q[i] + 4 * Base4(q, i + 1)

EnumBefore(a, b) ==
    \/ Len(a) < Len(b)
    \/ Len(a) = Len(b) /\ Base4(a, 1) < Base4(b, 1)

\* sum of count over the entries of m: every value c of count in C, times
\* the number of entries with that count
RECURSIVE CountSum(_, _)
CountSum(m, C) ==
    IF C = {} THEN 0
    ELSE LET c == CHOOSE x \in C : TRUE
         IN c * Cardinality({l \in DOMAIN m : m[l].count = c})
            + CountSum(m, C \ {c})

Range(f) == {f[i] : i \in DOMAIN f}

\* C4: when the enumeration is over (max >= 1), the map has an entry for L
\* exactly when some sequence of length 1..max leads to L; the entry's count
\* is the number of those sequences and its all holds exactly those
\* sequences, each once.
C4_Aggregation ==
    (pc = "sort" /\ max >= 1) =>
        LET O == Outcomes(max)
        IN /\ DOMAIN all = {o[1] : o \in O}
           /\ \A l \in DOMAIN all :
                 LET R == {o[2] : o \in {x \in O : x[1] = l}}
                 IN /\ all[l].count = Cardinality(R)
                    /\ Len(all[l].all) = Cardinality(R)
                    /\ Range(all[l].all) = R

\* C4 witness: with max = 3 the sequences URU and RLU end in the same Lock
\* and share one entry of count 2.
C4_Witness ==
    /\ pc = "sort"
    /\ max = 3
    /\ \E l \in DOMAIN all :
          /\ all[l].count = 2
          /\ all[l].all = << <<0, 3, 0>>, <<1, 3, 0>> >>

\* C5: when the enumeration is over (max = n >= 1), the counts add up to
\* 4 + 4^2 + ... + 4^n, and so do the number of entries plus the printed
\* duplicate total.
C5_Totals ==
    (pc = "sort" /\ max >= 1) =>
        /\ CountSum(all, {all[l].count : l \in DOMAIN all}) = Geo(max)
        /\ \A l \in DOMAIN all : all[l].count >= 1
        /\ Cardinality(DOMAIN all) + dups = Geo(max)
        /\ out[2] = <<"Uniques", Cardinality(DOMAIN all)>>
        /\ out[3] = <<"dups", dups>>

\* C5 witness: max = 4 gives 248 entries and 92 duplicates, 340 in all.
C5_Witness ==
    /\ pc = "sort"
    /\ max = 4
    /\ Cardinality(DOMAIN all) = 248
    /\ dups = 92

\* C6 as stated: with max = 0 the run does not index into the empty sorted
\* list (no out-of-bounds panic on moves[0]).
C6_NoPanicOnEmpty == ~(max = 0 /\ pc = "panic")

\* the report exists once line 108 has run
Sorted == pc \in {"show_all", "best", "best_loop", "done", "panic"}

\* C7: the sorted report lists every entry of the map once, in ascending
\* order of count and, for equal counts, in ascending order of the length of
\* the first sequence.
C7_SortOrder ==
    Sorted =>
        /\ Len(moves_vec) = Cardinality(DOMAIN all)
        /\ Range(moves_vec) = DOMAIN all
        /\ \A i \in 1..(Len(moves_vec) - 1) :
              LET a == all[moves_vec[i]]
                  b == all[moves_vec[i + 1]]
              IN /\ a.count <= b.count
                 /\ a.count = b.count => Len(a.seq) <= Len(b.seq)

\* C7 witness: a report with a tie on count broken by length, and with an
\* entry of smaller count and longer first sequence before one of larger
\* count and shorter first sequence.
C7_Witness ==
    /\ pc = "show_all"
    /\ \E i \in 1..(Len(moves_vec) - 1) :
          /\ all[moves_vec[i]].count = all[moves_vec[i + 1]].count
          /\ Len(all[moves_vec[i]].seq) < Len(all[moves_vec[i + 1]].seq)
    /\ \E i \in 1..(Len(moves_vec) - 1) :
          /\ all[moves_vec[i]].count < all[moves_vec[i + 1]].count
          /\ Len(all[moves_vec[i]].seq) > Len(all[moves_vec[i + 1]].seq)

IsBest(line) == line[1] = "Best"

\* the Lock of every "Best:" line printed, in order
BestLocks == LET b == SelectSeq(out, IsBest)
             IN [i \in 1..Len(b) |-> b[i][2]]

MinCount == CHOOSE c \in {all[l].count : l \in DOMAIN all} :
                \A l \in DOMAIN all : c <= all[l].count

\* C8: for a non-empty map the Best report starts with the first entry of
\* the sorted report, which has the minimum count and, among the entries of
\* minimum count, a shortest first sequence; without show_bests it is the
\* only entry printed, with show_bests the entries printed are exactly those
\* of minimum count, each once.
C8_BestReport ==
    pc = "done" =>
        LET b == BestLocks
            minc == MinCount
            best == {l \in DOMAIN all : all[l].count = minc}
        IN /\ Len(b) >= 1
           /\ b[1] = moves_vec[1]
           /\ b[1] \in best
           /\ \A l \in best : Len(all[b[1]].seq) <= Len(all[l].seq)
           /\ \A i \in 1..Len(b) :
                 <<"Best", b[i], all[b[i]].count, all[b[i]].seq>> \in Range(out)
           /\ ~show_bests => Len(b) = 1
           /\ show_bests => /\ Range(b) = best
                            /\ Len(b) = Cardinality(best)
                            /\ b = SubSeq(moves_vec, 1, Len(b))

\* C8 witness: with show_bests and max = 3, the 76 entries of count 1 are
\* printed and the loop stops at the first of the 4 entries of count 2.
C8_Witness ==
    /\ pc = "done"
    /\ show_bests
    /\ max = 3
    /\ Len(BestLocks) = 76
    /\ Len(moves_vec) = 80
    /\ idx = 77

\* C9: in every entry, all is in enumeration order (shorter sequences first,
\* and within one length by increasing base-4 number, the first move being
\* the least significant digit), and seq is its first element (looked at
\* after every completed length); when the enumeration is over, seq comes before every other sequence that leads to
\* the entry's Lock.
C9_EnumerationOrder ==
    /\ (pc = "sort" \/ (pc = "enumerate" /\ binary = 0)) =>
          \A l \in DOMAIN all :
              /\ Len(all[l].all) >= 1
              /\ all[l].seq = all[l].all[1]
              /\ \A i \in 1..(Len(all[l].all) - 1) :
                    EnumBefore(all[l].all[i], all[l].all[i + 1])
    /\ pc = "sort" =>
          \A o \in Outcomes(max) :
              /\ o[1] \in DOMAIN all
              /\ \/ o[2] = all[o[1]].seq
                 \/ EnumBefore(all[o[1]].seq, o[2])

\* C9 witness: an entry whose sequences DUU, RUDU, URDU, RLDU span two
\* lengths, and RUDU (number 33) comes before URDU (number 36).
C9_Witness ==
    /\ pc = "sort"
    /\ \E l \in DOMAIN all :
          all[l].all = << <<2, 0, 0>>, <<1, 0, 2, 0>>,
                          <<0, 1, 2, 0>>, <<1, 3, 2, 0>> >>

\* C10: with max = 1 the map has 4 entries, one for each of the sequences
\* U, R, D, L, every count is 1 and the duplicate total is 0.
C10_SingleMoves ==
    (pc = "sort" /\ max = 1) =>
        /\ Cardinality(DOMAIN all) = 4
        /\ \A l \in DOMAIN all : all[l].count = 1 /\ Len(all[l].all) = 1
        /\ {all[l].seq : l \in DOMAIN all} = {<<0>>, <<1>>, <<2>>, <<3>>}
        /\ DOMAIN all = {Final(<<d>>) : d \in Dirs}
        /\ dups = 0
        /\ out = << <<"For up to", 1>>, <<"Uniques", 4>>, <<"dups", 0>> >>

\* C10 witness: the enumeration for max = 1 is over, U led to (1|, 0>, 0|, 1<).
C10_Witness ==
    /\ pc = "sort"
    /\ max = 1
    /\ \E l \in DOMAIN all :
          /\ all[l].seq = <<0>>
          /\ l[0] = 4 /\ l[1] = 2 /\ l[2] = 1 /\ l[3] = 3

\* C11: in every Lock reached from the reset Lock by slides, each of the 4
\* wheels is position*3 + (bias+1) with position in 0..4 and bias in
\* {-1, 0, +1}, a value in 0..14.
C11_WheelRange ==
    \A i \in 0..3 :
        /\ lock[i] \in 0..14
        /\ \E p \in 0..4, b \in -1..1 : lock[i] = p * 3 + (b + 1)

\* C11 witness: a Lock reached by slides with a wheel at the largest value 14
\* (position 4, bias +1) and a wheel that wrapped back to position 0.
C11_Witness ==
    /\ lock_op[1] = "slide"
    /\ \E i \in 0..3 : lock[i] = 14
    /\ \E i \in 0..3 : lock_prev[i] \in 12..14 /\ lock[i] \in 0..2

\* The number of moves of the comment on lines 56-57.
ReachMoves == 11

\* A Lock as one number, wheel i being the base-15 digit i, and back.
Code(l) == l[0] + 15 * l[1] + 225 * l[2] + 3375 * l[3]

Decode(c) ==
    (0 :> c % 15) @@ (1 :> (c \div 15) % 15)
    @@ (2 :> (c \div 225) % 15) @@ (3 :> (c \div 3375) % 15)

\* PreAdvance[sh + 2][w + 1]: the wheels that advance(sh) takes to wheel w
PreAdvance ==
    collect([si \in 1..3 |->
        collect([wi \in 1..15 |->
            {v \in Wheels : advance(v, si - 2) = wi - 1}])])

\* The Locks (as numbers) that slide(d) takes to the Lock c: the wheels
\* prior, d and next taken back through advance.
SourcesBy(c, d) ==
    LET p == prior(d)
        n == next(d)
        wp == (c \div (15 ^ p)) % 15
        wd == (c \div (15 ^ d)) % 15
        wn == (c \div (15 ^ n)) % 15
        rest == c - wp * (15 ^ p) - wd * (15 ^ d) - wn * (15 ^ n)
    IN {rest + x * (15 ^ p) + y * (15 ^ d) + z * (15 ^ n) :
           x \in PreAdvance[1][wp + 1],
           y \in PreAdvance[2][wd + 1],
           z \in PreAdvance[3][wn + 1]}

Sources(c) == UNION {SourcesBy(c, d) : d \in Dirs}

\* Counting the sequences that end in a Lock.  A sequence of 1..n slides
\* ending in c is one slide from the reset Lock, or a sequence of 1..n-1
\* slides ending in a source of c, and then one slide.  So with w the Locks
\* that a sequence of 1..n-1 slides ends in and t those that two such
\* sequences end in, two sequences of 1..n slides end in c when c has a
\* source in t, or two sources among w and the reset Lock, or the reset
\* Lock as a source that is itself in w.
TwoSequences(c, w, t) ==
    \/ \E d \in Dirs : \E x \in SourcesBy(c, d) : x \in t
    \/ LET S == Sources(c) \cap (w \cup {Code(Lock_new)})
       IN \/ Cardinality(S) >= 2
          \/ Code(Lock_new) \in S \cap w

\* ReachTable[n], n in 1..k: within, the Locks (as numbers) that some
\* sequence of 1..n slides from the reset Lock ends in, and twice, those
\* that at least two such sequences end in.  fresh: the Locks first found
\* with n-1 slides, the only ones whose slides can be new.
RECURSIVE ReachFrom(_, _, _, _, _)
ReachFrom(w, t, fresh, acc, k) ==
    IF k = 0 THEN acc
    ELSE LET nw == w \cup {Code(slide(Decode(c), d)) : c \in fresh, d \in Dirs}
             nt == t \cup {c \in nw \ t : TwoSequences(c, w, t)}
         IN ReachFrom(nw, nt, nw \ w,
                      Append(acc, [within |-> nw, twice |-> nt]), k - 1)

ReachTable == ReachFrom({}, {}, {Code(Lock_new)}, <<>>, ReachMoves)

Within(n) == ReachTable[n].within

TwiceWithin(n) == ReachTable[n].twice

Within11 == Within(ReachMoves)

Within10 == Within(ReachMoves - 1)

Twice11 == TwiceWithin(ReachMoves)

Twice10 == TwiceWithin(ReachMoves - 1)

\* C12: every Lock reached from the reset Lock by a non-empty sequence of
\* slides, of any length, is also reached by a sequence of at most 11 slides.
C12_ReachedWithin11 ==
    lock_op[1] = "slide" => Code(lock) \in Within11

\* C12 witness: a Lock reached by slides that no sequence of 10 or fewer
\* slides reaches, so that 11 moves are needed.
C12_Witness ==
    /\ lock_op[1] = "slide"
    /\ Code(lock) \notin Within10
    /\ Code(lock) \in Within11

\* C13: for max = 11 every entry has count >= 2: every Lock reached by a
\* sequence of 1..11 slides is reached by at least two such sequences.
C13_NoUniqueAt11 ==
    lock_op[1] = "slide" => Code(lock) \in Twice11

\* C13 witness: a Lock that exactly one sequence of 1..10 slides reaches
\* (unique for max = 10) and that a second sequence reaches with 11.
C13_Witness ==
    /\ lock_op[1] = "slide"
    /\ Code(lock) \in Within10
    /\ Code(lock) \notin Twice10
    /\ Code(lock) \in Twice11

\* The sets above agree with the map of the enumeration: when it is over,
\* the keys are the Locks within max slides and the entries of count >= 2
\* are those that two sequences reach.
TwiceAgreesWithMap ==
    (pc = "sort" /\ max >= 1) =>
        /\ {Code(l) : l \in DOMAIN all} = Within(max)
        /\ {Code(l) : l \in {k \in DOMAIN all : all[k].count >= 2}}
              = TwiceWithin(max)


\* lexicographic order over the 4 wheel encodings, wheel 0 first
LexLess(a, b) ==
    \E i \in 0..3 : /\ a[i] < b[i]
                    /\ \A j \in 0..(i - 1) : a[j] = b[j]

\* the place of an entry in the report: count, then length of the first
\* sequence, then the Lock
ReportBefore(k1, k2) ==
    LET a == all[k1]
        b == all[k2]
    IN \/ a.count < b.count
       \/ a.count = b.count /\ Len(a.seq) < Len(b.seq)
       \/ a.count = b.count /\ Len(a.seq) = Len(b.seq) /\ LexLess(k1, k2)

\* C14: the sorted report is determined by the map, which max determines:
\* it lists every entry once, each entry strictly before the next in the
\* order (count, length of the first sequence, Lock), so that entries that
\* tie on count and length are in ascending Lock order and no other
\* arrangement of the same entries is possible.
C14_Deterministic ==
    Sorted =>
        /\ Range(moves_vec) = DOMAIN all
        /\ Len(moves_vec) = Cardinality(DOMAIN all)
        /\ \A i \in 1..(Len(moves_vec) - 1) :
              ReportBefore(moves_vec[i], moves_vec[i + 1])

\* C14 witness: a report for max >= 3 in which neighbours tie on count and
\* length, and the Lock alone decides their order.
C14_Witness ==
    /\ pc = "show_all"
    /\ max >= 3
    /\ \E i \in 1..(Len(moves_vec) - 1) :
          /\ all[moves_vec[i]].count = all[moves_vec[i + 1]].count
          /\ Len(all[moves_vec[i]].seq) = Len(all[moves_vec[i + 1]].seq)
          /\ all[moves_vec[i]].count >= 2
          /\ LexLess(moves_vec[i], moves_vec[i + 1])


\* a before b when the two direction lists, of one length, are compared move
\* by move from the first move
LexFromFirst(a, b) ==
    \E i \in 1..Len(a) : /\ a[i] < b[i]
                          /\ \A j \in 1..(i - 1) : a[j] = b[j]

\* a before b when the two direction lists, of one length, are compared move
\* by move from the last move backwards
LexFromLast(a, b) ==
    \E i \in 1..Len(a) : /\ a[i] < b[i]
                          /\ \A j \in (i + 1)..Len(a) : a[j] = b[j]

\* C15 as stated: in every entry, seq has the minimum length of the
\* sequences in all, and among those of that length it is the smallest when
\* the direction lists are compared move by move from the first move.
C15_LexEarliest ==
    pc = "sort" =>
        \A l \in DOMAIN all :
            \A q \in Range(all[l].all) :
                /\ Len(all[l].seq) <= Len(q)
                /\ (Len(q) = Len(all[l].seq) /\ q # all[l].seq)
                      => LexFromFirst(all[l].seq, q)

\* C15 amended: in every entry, seq is one of the sequences in all, has the
\* minimum length among them, and among those of that length it is the
\* smallest when the direction lists are compared move by move from the
\* last move backwards (it is the first one enumerated; the first move is
\* the digit that changes fastest).
C15_FirstEnumerated ==
    pc = "sort" =>
        \A l \in DOMAIN all :
            /\ all[l].seq \in Range(all[l].all)
            /\ \A q \in Range(all[l].all) :
                  /\ Len(all[l].seq) <= Len(q)
                  /\ (Len(q) = Len(all[l].seq) /\ q # all[l].seq)
                        => LexFromLast(all[l].seq, q)

\* C15 witness: the entry of URUU and UURU; URUU is enumerated first and is
\* the first sequence, although UURU is smaller from the first move.
C15_Witness ==
    /\ pc = "sort"
    /\ \E l \in DOMAIN all :
          /\ all[l].seq = <<0, 1, 0, 0>>
          /\ all[l].all = << <<0, 1, 0, 0>>, <<0, 0, 1, 0>> >>
          /\ LexFromFirst(<<0, 0, 1, 0>>, all[l].seq)


\* position and bias of a wheel value, read off the encoding 3 * p + (b + 1)
PositionOf(w) == w \div 3

BiasOf(w) == (w % 3) - 1

\* C16 as stated: advance(targetBias) on a wheel whose bias already equals
\* targetBias leaves the wheel's position unchanged.
C16_MaintainKeepsPosition ==
    (wheel_op[1] = "advance" /\ BiasOf(wheel_prev) = wheel_op[2]) =>
        PositionOf(wheel) = PositionOf(wheel_prev)

\* C16 amended: advance(targetBias) on a wheel whose bias already equals
\* targetBias moves the position one step on, from 4 round to 0, and keeps
\* the bias; the position is unchanged exactly when the bias was strictly
\* below targetBias.
C16_MaintainStepsPosition ==
    wheel_op[1] = "advance" =>
        /\ BiasOf(wheel_prev) = wheel_op[2] =>
              /\ PositionOf(wheel) = (PositionOf(wheel_prev) + 1) % 5
              /\ BiasOf(wheel) = BiasOf(wheel_prev)
        /\ PositionOf(wheel) = PositionOf(wheel_prev)
              <=> BiasOf(wheel_prev) < wheel_op[2]

\* C16 witness: advance(+1) on the wheel of position 2 and bias +1 gives
\* position 3, bias +1.
C16_Witness ==
    /\ wheel_op = <<"advance", 1>>
    /\ wheel_prev = 8
    /\ wheel = 11


\* the bias pattern that a slide in direction d leaves: -1 on the wheel
\* before d, 0 on wheel d, +1 on the wheel after d
FitsDirection(l, d) ==
    /\ BiasOf(l[(d + 3) % 4]) = -1
    /\ BiasOf(l[d]) = 0
    /\ BiasOf(l[(d + 1) % 4]) = 1

\* the directions that a Lock's bias pattern fits
LastMoves(l) == {d \in 0..3 : FitsDirection(l, d)}

\* C17: every sequence recorded in the map ends with the one direction that
\* the bias pattern of its entry's Lock fits, so all sequences of one entry
\* end with the same direction, and the all-neutral reset Lock is not a key
\* (looked at after every completed length and when the enumeration is
\* over).
C17_LastMoveRecoverable ==
    (pc = "sort" \/ (pc = "enumerate" /\ binary = 0)) =>
        /\ \A l \in DOMAIN all :
              /\ \A q \in Range(all[l].all) : LastMoves(l) = {q[Len(q)]}
              /\ Cardinality({q[Len(q)] : q \in Range(all[l].all)}) = 1
        /\ [i \in 0..3 |-> 1] \notin DOMAIN all

\* C17 witness: the entry of DRUU, RURU, DURU and RLRU, four sequences that
\* all end with U; its Lock has bias -1 on wheel 3, 0 on wheel 0 and +1 on
\* wheel 1.
C17_Witness ==
    /\ pc = "sort"
    /\ \E l \in DOMAIN all :
          /\ all[l].all = << <<2, 1, 0, 0>>, <<1, 0, 1, 0>>,
                              <<2, 0, 1, 0>>, <<1, 3, 1, 0>> >>
          /\ BiasOf(l[3]) = -1
          /\ BiasOf(l[0]) = 0
          /\ BiasOf(l[1]) = 1
          /\ LastMoves(l) = {0}

\* The same pattern after a slide sequence of any length: the Lock fits the
\* direction of the last slide and no other.
LastMoveAfterSlides ==
    lock_op[1] = "slide" => LastMoves(lock) = {lock_op[2]}


\* the Lock after k slides in direction d from the reset Lock
RECURSIVE Repeated(_, _)
Repeated(d, k) == IF k = 0 THEN Lock_new ELSE slide(Repeated(d, k - 1), d)

\* C18: sliding one direction k + 5 times from the reset Lock gives the
\* same Lock as sliding it k times, for every k >= 1 (but not for k = 0);
\* and the Lock of a single move is the end of at least two sequences of
\* 1..n slides for every n from 6 on.
C18_PeriodFive ==
    lock_op[1] = "repeat" =>
        LET d == lock_op[2]
            k == lock_op[3]
        IN /\ k >= 6 => lock = Repeated(d, k - 5)
           /\ k = 5 => lock # Lock_new
           /\ k = 1 => \A n \in 6..ReachMoves : Code(lock) \in TwiceWithin(n)

\* C18 witness: six slides D from the reset Lock end in the Lock of one
\* slide D, wheels 1|, 1<, 1|, 0>.
C18_Witness ==
    /\ lock_op = <<"repeat", 2, 6>>
    /\ lock = (0 :> 1) @@ (1 :> 3) @@ (2 :> 4) @@ (3 :> 2)
    /\ lock = Repeated(2, 1)


\* C19: after every round of the enumeration loop, and from then on, every
\* entry of the map has count equal to the length of all, at least 1, and
\* seq equal to the first element of all; so every term count - 1 of the
\* duplicate total is at least 0, and so is the total.
C19_EntryShape ==
    /\ \A l \in DOMAIN all :
          LET ent == all[l]
          IN /\ ent.count = Len(ent.all)
             /\ ent.count >= 1
             /\ ent.seq = ent.all[1]
             /\ ent.count - 1 >= 0
    /\ dups >= 0

\* C19 witness: in the middle of the enumeration of one length, the map
\* holds an entry of count 1 and an entry of count 2 with its two sequences
\* and the first of them as seq.
C19_Witness ==
    /\ pc = "enumerate"
    /\ binary > 0
    /\ \E l \in DOMAIN all : all[l].count = 1 /\ all[l].all = <<all[l].seq>>
    /\ \E l \in DOMAIN all :
          /\ all[l].count = 2
          /\ Len(all[l].all) = 2
          /\ all[l].seq = all[l].all[1]
          /\ all[l].seq # all[l].all[2]

====
